---- MODULE Spec2Model ----
(***************************************************************************)
(* Model of bevy_assetio_zip: the Xor byte transform (src/src/xor.rs), the *)
(* resolving asset source AssetIoZip (bevy_assetio_zip/src/lib.rs) and the *)
(* directory bundler zip_dir (bevy_assetio_zip_bundler/src/lib.rs).        *)
(*                                                                         *)
(* Files are byte sequences.  The zip container written by ZipWriter and   *)
(* read by ZipArchive is a reduced format with the same structure: one     *)
(* header + payload per entry, closed by an end record that counts them.   *)
(***************************************************************************)
EXTENDS Integers, Sequences, FiniteSets, TLC

(***************************************************************************)
(* Bounds                                                                  *)
(***************************************************************************)
\* longest underlying stream of the Xor model
MaxLen == 2
\* longest buffer handed to Xor.read / Xor.write
MaxBuf == 2
\* number of content versions of the source tree
MaxVersion == 2

(***************************************************************************)
(* Bytes and the Xor transform (src/src/xor.rs)                            *)
(***************************************************************************)
ByteMax == 255
Byte == 0..ByteMax

XOR_FACTOR == 85

RECURSIVE BitXor(_, _, _)
BitXor(a, b, n) ==
    IF n = 0 THEN 0
    ELSE (((a % 2) + (b % 2)) % 2) + 2 * BitXor(a \div 2, b \div 2, n - 1)

\* *byte ^ XOR_FACTOR in Xor::read
XorReadByte(b) == BitXor(b, XOR_FACTOR, 8)

XorWriteByteAdd(b) == (b + XOR_FACTOR) % (ByteMax + 1)

\* x ^ XOR_FACTOR in Xor::write
XorWriteByte(b) == BitXor(b, XOR_FACTOR, 8)

\* a whole stream read through Xor
XorBytes(s) == [i \in DOMAIN s |-> XorReadByte(s[i])]

XorWriteBytesKeyed(s) ==
    [i \in DOMAIN s |-> BitXor(s[i], XOR_FACTOR + i - 1, 8)]

\* a whole buffer written through Xor
XorWriteBytes(s) == [i \in DOMAIN s |-> XorWriteByte(s[i])]

Min(a, b) == IF a < b THEN a ELSE b
Max(a, b) == IF a > b THEN a ELSE b

(***************************************************************************)
(* Names and source trees                                                  *)
(***************************************************************************)
\* '/' as the zip crate joins path components
SEP == 47

\* file and directory names of the asset tree: "a", "s", "b", "d", "m"
NameA == <<97>>
NameS == <<115>>
NameB == <<98>>
NameD == <<100>>
NameM == <<109>>

\* zip::write::path_to_string as called by start_file_from_path and
\* add_directory_from_path: the normal components joined by '/'
RECURSIVE path_to_string(_)
path_to_string(components) ==
    IF components = <<>> THEN <<>>
    ELSE IF Len(components) = 1 THEN components[1]
    ELSE components[1] \o <<SEP>> \o path_to_string(Tail(components))

\* contents of the two asset files in version v of the tree
DataA(v) == <<v, v, 0>>
DataB(v) == [i \in 1..v |-> 100 + i]

File(rel, data) == [rel |-> rel, isFile |-> TRUE, data |-> data]
Dir(rel) == [rel |-> rel, isFile |-> FALSE, data |-> <<>>]

\* the entries WalkDir::new(source_dir) yields, root first, in walk order.
\* Odd versions of the tree hold a, s/, s/b and the empty directory d/;
\* even versions hold only a.
WalkDir(v) ==
    IF v % 2 = 1
    THEN << Dir(<<>>), File(<<NameA>>, DataA(v)), Dir(<<NameS>>),
            File(<<NameS, NameB>>, DataB(v)), Dir(<<NameD>>) >>
    ELSE << Dir(<<>>), File(<<NameA>>, DataA(v)) >>

(***************************************************************************)
(* The zip container (zip crate: ZipWriter, ZipArchive)                    *)
(***************************************************************************)
Stored == 0
Deflated == 8
Bzip2 == 12
CompressionMethods == {Stored, Deflated, Bzip2}

LOCAL_SIG == 80
END_SIG == 75
BZ_SIG == 66

RECURSIVE SumBytes(_)
SumBytes(d) == IF d = <<>> THEN 0 ELSE d[1] + SumBytes(Tail(d))

\* checksum kept with each entry
Crc(d) == SumBytes(d) % (ByteMax + 1)

Reverse(d) == [i \in 1..Len(d) |-> d[Len(d) + 1 - i]]

RunLen(d) ==
    CHOOSE k \in 1..Len(d) :
        /\ \A i \in 1..k : d[i] = d[1]
        /\ k = Len(d) \/ d[k + 1] # d[1]

RECURSIVE Rle(_)
Rle(d) ==
    IF d = <<>> THEN <<>>
    ELSE <<RunLen(d), d[1]>> \o Rle(SubSeq(d, RunLen(d) + 1, Len(d)))

RECURSIVE UnRle(_)
UnRle(c) ==
    IF Len(c) < 2 THEN <<>>
    ELSE [i \in 1..c[1] |-> c[2]] \o UnRle(SubSeq(c, 3, Len(c)))

\* the entry payload for each compression method
Compress(method, d) ==
    CASE method = Stored -> d
      [] method = Deflated -> Rle(d)
      [] method = Bzip2 -> <<BZ_SIG>> \o Reverse(d)

Ok(bytes) == [kind |-> "ok", bytes |-> bytes, err |-> "none"]
Err(e) == [kind |-> "err", bytes |-> <<>>, err |-> e]
Panic(e) == [kind |-> "panic", bytes |-> <<>>, err |-> e]

\* decoding of an entry payload
Decompress(method, c) ==
    CASE method = Stored -> Ok(c)
      [] method = Deflated ->
            IF Len(c) % 2 = 0 /\ \A i \in 1..Len(c) : (i % 2 = 1 => c[i] >= 1)
            THEN Ok(UnRle(c)) ELSE Err("corrupt deflate stream")
      [] method = Bzip2 ->
            IF Len(c) >= 1 /\ c[1] = BZ_SIG
            THEN Ok(Reverse(Tail(c))) ELSE Err("corrupt bzip2 stream")
      [] OTHER -> Err("unsupported")

\* one entry as ZipWriter lays it out
EntryBytes(e) ==
    <<LOCAL_SIG, Len(e.name)>> \o e.name
        \o <<e.method, e.crc, e.size, Len(e.comp)>> \o e.comp

RECURSIVE EntriesBytes(_)
EntriesBytes(es) ==
    IF es = <<>> THEN <<>> ELSE EntryBytes(es[1]) \o EntriesBytes(Tail(es))

\* ZipWriter::finish: the entries followed by the end record
ArchiveBytes(es) == EntriesBytes(es) \o <<END_SIG, Len(es)>>

\* start_file_from_path + write_all
FileEntry(name, method, d) ==
    [name |-> name, method |-> method, crc |-> Crc(d), size |-> Len(d),
     comp |-> Compress(method, d)]

\* add_directory_from_path: the name with a trailing '/', stored, empty
DirEntry(name) ==
    [name |-> name \o <<SEP>>, method |-> Stored, crc |-> 0, size |-> 0,
     comp |-> <<>>]

NoArchive == [ok |-> FALSE, entries |-> <<>>]

RECURSIVE ParseEntries(_, _, _)
ParseEntries(bytes, i, k) ==
    IF k = 0 THEN [ok |-> (i = Len(bytes) - 1), entries |-> <<>>]
    ELSE IF i + 1 > Len(bytes) - 2 \/ bytes[i] # LOCAL_SIG THEN NoArchive
    ELSE LET nl == bytes[i + 1]
             h == i + 2 + nl
         IN  IF h + 3 > Len(bytes) - 2 THEN NoArchive
             ELSE LET cl == bytes[h + 3]
                      next == h + 4 + cl
                  IN  IF next > Len(bytes) - 1 THEN NoArchive
                      ELSE LET rest == ParseEntries(bytes, next, k - 1)
                               e == [name |-> SubSeq(bytes, i + 2, h - 1),
                                     method |-> bytes[h], crc |-> bytes[h + 1],
                                     size |-> bytes[h + 2],
                                     comp |-> SubSeq(bytes, h + 4, next - 1)]
                           IN  IF rest.ok
                               THEN [ok |-> TRUE, entries |-> <<e>> \o rest.entries]
                               ELSE NoArchive

\* ZipArchive::new: the end record, then the entries it counts
ZipArchiveNew(bytes) ==
    IF Len(bytes) < 2 \/ bytes[Len(bytes) - 1] # END_SIG THEN NoArchive
    ELSE ParseEntries(bytes, 1, bytes[Len(bytes)])

\* ZipArchive::by_name: the entry stored under the name, if it can be opened
by_name(archive, name) ==
    LET hits == {i \in DOMAIN archive.entries : archive.entries[i].name = name}
    IN  IF hits = {} THEN [ok |-> FALSE, err |-> "FileNotFound"]
        ELSE LET e == archive.entries[CHOOSE i \in hits : \A j \in hits : j <= i]
             IN  IF e.method \in CompressionMethods
                 THEN [ok |-> TRUE, file |-> e]
                 ELSE [ok |-> FALSE, err |-> "UnsupportedArchive"]

\* file.read_to_end(&mut buf): the decoded payload, checked against the crc
read_to_end(file) ==
    LET d == Decompress(file.method, file.comp)
    IN  IF d.kind # "ok" THEN Err("read")
        ELSE IF Crc(d.bytes) # file.crc \/ Len(d.bytes) # file.size
        THEN Err("read")
        ELSE Ok(d.bytes)

(***************************************************************************)
(* The bundler: zip_dir (bevy_assetio_zip_bundler/src/lib.rs)              *)
(***************************************************************************)
Absent == [exists |-> FALSE, bytes |-> <<>>]
Present(bytes) == [exists |-> TRUE, bytes |-> bytes]

BufferKeep(buffer) == buffer

\* buffer.clear()
BufferClear(buffer) == <<>>

\* the for loop of zip_dir from walk entry i on, with the shared buffer
RECURSIVE WalkLoop(_, _, _, _)
WalkLoop(walk, i, buffer, compression) ==
    IF i > Len(walk) THEN <<>>
    ELSE LET entry == walk[i]
             name == entry.rel
         IN  IF entry.isFile
             THEN LET filled == buffer \o entry.data
                  IN  <<FileEntry(path_to_string(name), compression, filled)>>
                        \o WalkLoop(walk, i + 1, BufferClear(filled), compression)
             ELSE IF Len(path_to_string(name)) # 0
             THEN <<DirEntry(path_to_string(name))>>
                    \o WalkLoop(walk, i + 1, buffer, compression)
             ELSE WalkLoop(walk, i + 1, buffer, compression)

\* the bytes zip_dir leaves in target_file
zip_dir(walk, compression, obfuscate) ==
    LET written == ArchiveBytes(WalkLoop(walk, 1, <<>>, compression))
    IN  IF obfuscate THEN XorWriteBytes(written) ELSE written

\* bundle_crate_assets: "bin" if config.obfuscate, else "zip"
file_extension(obfuscate) == IF obfuscate THEN "bin" ELSE "zip"

(***************************************************************************)
(* The fallback source (Box<dyn AssetIo>)                                  *)
(***************************************************************************)
IsPrefix(pre, str) == Len(pre) <= Len(str) /\ SubSeq(str, 1, Len(pre)) = pre

FallbackLoad(dir, p) ==
    IF \E a \in dir : a.name = p
    THEN Ok((CHOOSE a \in dir : a.name = p).data)
    ELSE Err("NotFound")

FallbackIsDirectory(dir, p) ==
    \E a \in dir : IsPrefix(p \o <<SEP>>, a.name)

FallbackReadDirectory(dir, p) ==
    IF FallbackIsDirectory(dir, p)
    THEN [kind |-> "ok", paths |-> {a.name : a \in {b \in dir : IsPrefix(p \o <<SEP>>, b.name)}}]
    ELSE [kind |-> "err", paths |-> {}]

FallbackWatchPath(dir, p) ==
    IF (\E a \in dir : a.name = p) \/ FallbackIsDirectory(dir, p)
    THEN "ok" ELSE "err"

FallbackWatchAll(dir) == "ok"

(***************************************************************************)
(* The resolving asset source: AssetIoZip (bevy_assetio_zip/src/lib.rs)    *)
(***************************************************************************)
LocateZipFirst(bin, zip) ==
    IF zip.exists THEN [found |-> TRUE, ext |-> "zip", obfuscate |-> FALSE]
    ELSE IF bin.exists THEN [found |-> TRUE, ext |-> "bin", obfuscate |-> TRUE]
    ELSE [found |-> FALSE, ext |-> "none", obfuscate |-> FALSE]

\* AssetIoZip::bundle, the choice of (path, obfuscate)
Locate(bin, zip) ==
    IF bin.exists THEN [found |-> TRUE, ext |-> "bin", obfuscate |-> TRUE]
    ELSE IF zip.exists THEN [found |-> TRUE, ext |-> "zip", obfuscate |-> FALSE]
    ELSE [found |-> FALSE, ext |-> "none", obfuscate |-> FALSE]

\* the bytes the reader built in AssetIoZip::bundle yields
Reader(file, obfuscate) ==
    IF obfuscate THEN XorBytes(file.bytes) ELSE file.bytes

\* AssetIoZip::bundle: Some(archive) or None
bundle(bin, zip) ==
    LET c == Locate(bin, zip)
        file == IF c.ext = "bin" THEN bin ELSE zip
    IN  IF ~c.found
        THEN [some |-> FALSE, located |-> "none", entries |-> <<>>]
        ELSE LET a == ZipArchiveNew(Reader(file, c.obfuscate))
             IN  [some |-> a.ok, located |-> c.ext, entries |-> a.entries]

ToStrLossy(p) == [some |-> TRUE, str |-> p]

\* path.to_str(): None for a path that is not valid unicode
IsUnicode(p) == \A i \in DOMAIN p : p[i] < 128
to_str(p) == IF IsUnicode(p) THEN [some |-> TRUE, str |-> p]
             ELSE [some |-> FALSE, str |-> <<>>]

Returned(result, fb, located) ==
    [result |-> result, fb |-> fb, located |-> located]

LoadCall(p) == [op |-> "load_path", arg |-> p]

\* has_file: asset_bundle.by_name(..).ok().is_some()
has_file(archive, name) == by_name(archive, name).ok

ReadFirstChunk(archive, name) ==
    LET r == read_to_end(by_name(archive, name).file)
    IN  IF r.kind = "ok" THEN Ok(SubSeq(r.bytes, 1, Min(1, Len(r.bytes)))) ELSE r

\* the has_file branch: by_name(..).unwrap(), read_to_end, Ok(buf)
ReadEntry(archive, name) == read_to_end(by_name(archive, name).file)

DropOnMiss(dir, p) == [result |-> Err("FileNotFound"), fb |-> <<>>]

\* self.fallback_io.load_path(path).await when the bundle lacks the entry
ForwardOnMiss(dir, p) == [result |-> FallbackLoad(dir, p), fb |-> <<LoadCall(p)>>]

DropOnNone(dir, p) == [result |-> Err("NoBundle"), fb |-> <<>>]

\* self.fallback_io.load_path(path).await when bundle() is None
ForwardOnNone(dir, p) == [result |-> FallbackLoad(dir, p), fb |-> <<LoadCall(p)>>]

\* AssetIoZip::load_path: the result, the fallback calls made, the file located
load_path(bin, zip, dir, p) ==
    LET asset_bundle == bundle(bin, zip)
    IN  IF asset_bundle.some
        THEN IF ~to_str(p).some
             THEN Returned(Panic("non-unicode filename"), <<>>, asset_bundle.located)
             ELSE IF has_file(asset_bundle, to_str(p).str)
             THEN Returned(ReadEntry(asset_bundle, to_str(p).str), <<>>,
                           asset_bundle.located)
             ELSE Returned(ForwardOnMiss(dir, p).result, ForwardOnMiss(dir, p).fb,
                           asset_bundle.located)
        ELSE Returned(ForwardOnNone(dir, p).result, ForwardOnNone(dir, p).fb,
                      asset_bundle.located)

WatchAllInstead(dir, p) ==
    Returned(FallbackWatchAll(dir), <<[op |-> "watch_for_changes", arg |-> <<>>]>>, "none")

\* the four operations that only forward to fallback_io
read_directory(dir, p) ==
    Returned(FallbackReadDirectory(dir, p), <<[op |-> "read_directory", arg |-> p]>>, "none")
is_directory(dir, p) ==
    Returned(FallbackIsDirectory(dir, p), <<[op |-> "is_directory", arg |-> p]>>, "none")
\* watch_path_for_changes
watch_path_for_changes(dir, p) ==
    Returned(FallbackWatchPath(dir, p), <<[op |-> "watch_path_for_changes", arg |-> p]>>, "none")
watch_for_changes(dir) ==
    Returned(FallbackWatchAll(dir), <<[op |-> "watch_for_changes", arg |-> <<>>]>>, "none")

VARIABLES
    \* ---- Xor stream ----
    seed,      \* the byte value this behaviour writes
    inner,     \* bytes of the underlying stream (self.0)
    pos,       \* position of the underlying stream
    plain,     \* plain byte written at each offset, -1 where none was written
    xret,      \* outcome of the last Xor call
    \* ---- search directory, fallback source, calls ----
    binFile,   \* {file_name}.bin beside the executable
    zipFile,   \* {file_name}.zip beside the executable
    assets,    \* the asset directory the fallback source serves
    call,      \* the last AssetIo call and what it did
    lastRun,   \* the last run of the bundler
    \* ---- load_path calls in flight ----
    loads,     \* per task: where its load_path call is and what it holds
    \* ---- a run of the bundler in progress ----
    run        \* where zip_dir is, what it has written, whether a run failed

xorVars == <<seed, inner, pos, plain, xret>>
fsVars == <<binFile, zipFile, assets, call, lastRun, loads, run>>

vars == <<seed, inner, pos, plain, xret, binFile, zipFile, assets, call, lastRun, loads,
          run>>

NoCall == [op |-> "none"]

InitXorState ==
    /\ inner = <<>>
    /\ pos = 0
    /\ plain = <<>>
    /\ xret = NoCall

\* the stream after n bytes of data were stored at offset p (a gap is zero filled)
StoreAt(s, p, data, n, fill) ==
    [i \in 1..Max(Len(s), p + n) |->
        IF i > p /\ i <= p + n THEN data[i - p]
        ELSE IF i <= Len(s) THEN s[i]
        ELSE fill]

\* impl Write for Xor: the delegate accepts n of the transformed bytes
XorWrite(wbuf, n) ==
    /\ pos + n <= MaxLen
    /\ inner' = StoreAt(inner, pos, XorWriteBytes(wbuf), n, 0)
    /\ plain' = StoreAt(plain, pos, wbuf, n, -1)
    /\ pos' = pos + n
    /\ xret' = [op |-> "write", ok |-> TRUE, n |-> n, at |-> pos]
    /\ UNCHANGED <<seed, fsVars>>

\* impl Write for Xor: the delegate fails, its error is the result
XorWriteErr(wbuf) ==
    /\ xret' = [op |-> "write", ok |-> FALSE, n |-> 0, at |-> pos]
    /\ UNCHANGED <<seed, inner, pos, plain, fsVars>>

\* the caller's buffer after the delegate placed n bytes from offset p in it
Delegated(rbuf, p, n) ==
    [i \in DOMAIN rbuf |-> IF i <= n THEN inner[p + i] ELSE rbuf[i]]

\* the for loop of Xor::read: every byte of buf
XorLoop(dbuf, n) == [i \in DOMAIN dbuf |-> XorReadByte(dbuf[i])]

\* impl Read for Xor: the delegate returns count n
XorRead(rbuf, n) ==
    /\ xret' = [op |-> "read", ok |-> TRUE, n |-> n, at |-> pos,
                dbuf |-> Delegated(rbuf, pos, n),
                buf |-> XorLoop(Delegated(rbuf, pos, n), n)]
    /\ pos' = pos + n
    /\ UNCHANGED <<seed, inner, plain, fsVars>>

\* impl Read for Xor: the delegate fails, `?` returns before the loop
XorReadErr(rbuf) ==
    /\ xret' = [op |-> "read", ok |-> FALSE, n |-> 0, at |-> pos,
                dbuf |-> rbuf, buf |-> rbuf]
    /\ UNCHANGED <<seed, inner, pos, plain, fsVars>>

\* the underlying stream's seek(SeekFrom::Start(target))
InnerSeek(target) ==
    IF target < 0 THEN [ok |-> FALSE, n |-> pos] ELSE [ok |-> TRUE, n |-> target]

\* self.0.seek(pos) in Xor::seek: the position handed to the delegate
SeekArg(target) == target

\* impl Seek for Xor: the delegate's seek, argument and result untouched
XorSeek(target) ==
    /\ xret' = [op |-> "seek", ok |-> InnerSeek(SeekArg(target)).ok,
                n |-> InnerSeek(SeekArg(target)).n, at |-> target]
    /\ pos' = InnerSeek(SeekArg(target)).n
    /\ UNCHANGED <<seed, inner, plain, fsVars>>

\* buffers a caller hands to write: the behaviour's byte and its successors
WriteBufs == {[i \in 1..k |-> (seed + i - 1) % (ByteMax + 1)] : k \in 1..MaxBuf}

\* buffers a caller hands to read, holding old bytes
ReadBufs == {[i \in 1..k |-> seed] : k \in 0..MaxBuf}

DoXorWrite == \E wbuf \in WriteBufs : \E n \in 1..Len(wbuf) : XorWrite(wbuf, n)
DoXorWriteErr == \E wbuf \in WriteBufs : XorWriteErr(wbuf)
DoXorRead ==
    \E rbuf \in ReadBufs :
        \E n \in 0..Min(Len(rbuf), Max(0, Len(inner) - pos)) :
            /\ (n = 0) => (Len(rbuf) = 0 \/ pos >= Len(inner))
            /\ XorRead(rbuf, n)
DoXorReadErr == \E rbuf \in ReadBufs : XorReadErr(rbuf)
DoXorSeek == \E target \in -1..MaxLen : XorSeek(target)

(***************************************************************************)
(* load_path step by step, for calls that overlap on the IO task pool      *)
(***************************************************************************)
\* tasks of the pool that call load_path
Tasks == {"t1", "t2"}

NoHandle == [some |-> FALSE, entries |-> <<>>]

\* a task outside load_path: AssetIoZip holds only fallback_io and config
Idle == [pc |-> "idle", path |-> <<>>, located |-> "none", handle |-> NoHandle,
         result |-> Err("none"), dirty |-> FALSE]

KeepBundle(asset_bundle) == asset_bundle

\* asset_bundle is a local of load_path: dropped when the call returns
DropBundle(asset_bundle) == NoHandle

(***************************************************************************)
(* Calls on the asset source, bundler runs and changes to the directory    *)
(***************************************************************************)
\* no zip_dir in progress and no run has failed so far
NotRunning == [pc |-> "idle", v |-> 0, compression |-> Stored, obfuscate |-> FALSE,
               i |-> 0, entries |-> <<>>, buffer |-> <<>>, clean |-> TRUE]

\* assets the fallback directory may hold
AssetPool ==
    { [name |-> path_to_string(<<NameA>>), data |-> <<9>>],
      [name |-> path_to_string(<<NameS, NameB>>), data |-> <<8, 8>>],
      [name |-> path_to_string(<<NameM>>), data |-> <<7>>] }

\* a file name that is not valid unicode: the single byte 0xFF
NonUnicode == <<ByteMax>>

\* paths callers ask load_path for: "a", "s/b", "m", "d/" and the name 0xFF
RequestPaths ==
    { path_to_string(<<NameA>>), path_to_string(<<NameS, NameB>>),
      path_to_string(<<NameM>>), NameD \o <<SEP>>, NonUnicode }

\* paths callers ask the directory and watch operations for: "a", "s"
DirPaths == { path_to_string(<<NameA>>), NameS }

NoRun == [ok |-> FALSE, v |-> 0, compression |-> Stored,
          obfuscate |-> FALSE]

InitFsState ==
    /\ binFile = Absent
    /\ zipFile = Absent
    /\ assets \in {{}, AssetPool}
    /\ call = [op |-> "none"]
    /\ lastRun = NoRun
    /\ loads = [l \in Tasks |-> Idle]
    /\ run = NotRunning

Done(op, p, r) ==
    call' = [op |-> op, arg |-> p, result |-> r.result, fb |-> r.fb,
             located |-> r.located]

LoadPath(p) ==
    /\ Done("load_path", p, load_path(binFile, zipFile, assets, p))
    /\ UNCHANGED <<xorVars, binFile, zipFile, assets, lastRun, loads, run>>

ReadDirectory(p) ==
    /\ Done("read_directory", p, read_directory(assets, p))
    /\ UNCHANGED <<xorVars, binFile, zipFile, assets, lastRun, loads, run>>

IsDirectory(p) ==
    /\ Done("is_directory", p, is_directory(assets, p))
    /\ UNCHANGED <<xorVars, binFile, zipFile, assets, lastRun, loads, run>>

WatchPathForChanges(p) ==
    /\ Done("watch_path_for_changes", p, watch_path_for_changes(assets, p))
    /\ UNCHANGED <<xorVars, binFile, zipFile, assets, lastRun, loads, run>>

WatchForChanges ==
    /\ Done("watch_for_changes", <<>>, watch_for_changes(assets))
    /\ UNCHANGED <<xorVars, binFile, zipFile, assets, lastRun, loads, run>>

\* bundle_crate_assets into the directory the resolver searches
BundleAssets(v, compression, obfuscate) ==
    /\ IF file_extension(obfuscate) = "bin"
       THEN /\ binFile' = Present(zip_dir(WalkDir(v), compression, obfuscate))
            /\ UNCHANGED zipFile
       ELSE /\ zipFile' = Present(zip_dir(WalkDir(v), compression, obfuscate))
            /\ UNCHANGED binFile
    /\ lastRun' = [ok |-> TRUE, v |-> v,
                   compression |-> compression, obfuscate |-> obfuscate]
    /\ call' = [op |-> "none"]
    /\ UNCHANGED <<xorVars, assets, loads, run>>

\* someone deletes a bundle file
RemoveFile(ext) ==
    /\ IF ext = "bin"
       THEN binFile.exists /\ binFile' = Absent /\ UNCHANGED zipFile
       ELSE zipFile.exists /\ zipFile' = Absent /\ UNCHANGED binFile
    /\ call' = [op |-> "none"]
    /\ UNCHANGED <<xorVars, assets, lastRun, loads, run>>

WellFormed(file, obfuscate) == file.exists /\ ZipArchiveNew(Reader(file, obfuscate)).ok

Truncated(file) == Present(SubSeq(file.bytes, 1, Len(file.bytes) - 1))

\* a well-formed bundle file loses its last byte (interrupted copy)
TruncateFile(ext) ==
    /\ IF ext = "bin"
       THEN /\ WellFormed(binFile, TRUE)
            /\ binFile' = Truncated(binFile) /\ UNCHANGED zipFile
       ELSE /\ WellFormed(zipFile, FALSE)
            /\ zipFile' = Truncated(zipFile) /\ UNCHANGED binFile
    /\ call' = [op |-> "none"]
    /\ UNCHANGED <<xorVars, assets, lastRun, loads, run>>

\* a compression method of other zip software that ZipArchive cannot decode
LZMA == 14

\* a zip made with other software: "a" is LZMA compressed, "m" is stored but
\* its payload no longer matches its checksum
ForeignEntries ==
    << [name |-> NameA, method |-> LZMA, crc |-> Crc(<<5>>), size |-> 1,
        comp |-> <<5, 5>>],
       [name |-> NameM, method |-> Stored, crc |-> Crc(<<6>>), size |-> 1,
        comp |-> <<4>>] >>

\* someone puts a plain zip made with other software beside the executable
PlaceForeignZip ==
    /\ zipFile' = Present(ArchiveBytes(ForeignEntries))
    /\ zipFile' # zipFile
    /\ UNCHANGED binFile
    /\ call' = [op |-> "none"]
    /\ UNCHANGED <<xorVars, assets, lastRun, loads, run>>

Init == seed = 0 /\ InitXorState /\ InitFsState

Next ==
    \/ \E p \in RequestPaths : LoadPath(p)
    \/ \E p \in DirPaths : ReadDirectory(p)
    \/ \E p \in DirPaths : IsDirectory(p)
    \/ \E p \in DirPaths : WatchPathForChanges(p)
    \/ WatchForChanges
    \/ \E v \in 1..MaxVersion, compression \in CompressionMethods,
          obfuscate \in BOOLEAN : BundleAssets(v, compression, obfuscate)
    \/ \E ext \in {"bin", "zip"} : RemoveFile(ext)
    \/ \E ext \in {"bin", "zip"} : TruncateFile(ext)
    \/ PlaceForeignZip

Spec == Init /\ [][Next]_vars

(***************************************************************************)
(* Overlapping load_path calls while the directory changes                 *)
(***************************************************************************)
ConcPaths == { path_to_string(<<NameA>>), path_to_string(<<NameS, NameB>>) }

Set(l, r) == loads' = [loads EXCEPT ![l] = r]

\* every call in flight has seen the directory change under it
Disturbed == [l \in Tasks |-> IF loads[l].pc = "idle" THEN loads[l]
                               ELSE [loads[l] EXCEPT !.dirty = TRUE]]

\* load_path is called
Begin(l, p) ==
    /\ loads[l].pc = "idle"
    /\ Set(l, [loads[l] EXCEPT !.pc = "check_bin", !.path = p])
    /\ UNCHANGED <<xorVars, binFile, zipFile, assets, call, lastRun, run>>

\* bundle(): file_path_bin.exists()
CheckBin(l) ==
    /\ loads[l].pc = "check_bin"
    /\ IF binFile.exists
       THEN Set(l, [loads[l] EXCEPT !.pc = "open", !.located = "bin"])
       ELSE Set(l, [loads[l] EXCEPT !.pc = "check_zip"])
    /\ UNCHANGED <<xorVars, binFile, zipFile, assets, call, lastRun, run>>

\* bundle(): file_path_zip.exists(), else return None
CheckZip(l) ==
    /\ loads[l].pc = "check_zip"
    /\ IF zipFile.exists
       THEN Set(l, [loads[l] EXCEPT !.pc = "open", !.located = "zip"])
       ELSE Set(l, [loads[l] EXCEPT !.pc = "fallback"])
    /\ UNCHANGED <<xorVars, binFile, zipFile, assets, call, lastRun, run>>

\* bundle(): open(path).ok()?, the reader, ZipArchive::new(..).ok()?
Open(l) ==
    /\ loads[l].pc = "open"
    /\ LET file == IF loads[l].located = "bin" THEN binFile ELSE zipFile
           a == ZipArchiveNew(Reader(file, loads[l].located = "bin"))
       IN  IF file.exists /\ a.ok
           THEN Set(l, [loads[l] EXCEPT !.pc = "by_name",
                           !.handle = [some |-> TRUE, entries |-> a.entries]])
           ELSE Set(l, [loads[l] EXCEPT !.pc = "fallback"])
    /\ UNCHANGED <<xorVars, binFile, zipFile, assets, call, lastRun, run>>

\* has_file, then the entry read from the task's own archive, or the miss
ByName(l) ==
    /\ loads[l].pc = "by_name"
    /\ IF has_file(loads[l].handle, to_str(loads[l].path).str)
       THEN Set(l, [loads[l] EXCEPT !.pc = "done",
                       !.result = ReadEntry(loads[l].handle, to_str(loads[l].path).str)])
       ELSE Set(l, [loads[l] EXCEPT !.pc = "fallback"])
    /\ UNCHANGED <<xorVars, binFile, zipFile, assets, call, lastRun, run>>

\* self.fallback_io.load_path(path).await
Fallback(l) ==
    /\ loads[l].pc = "fallback"
    /\ Set(l, [loads[l] EXCEPT !.pc = "done",
                  !.result = FallbackLoad(assets, loads[l].path)])
    /\ UNCHANGED <<xorVars, binFile, zipFile, assets, call, lastRun, run>>

\* the future completes; the call's locals are gone
Return(l) ==
    /\ loads[l].pc = "done"
    /\ Set(l, [Idle EXCEPT !.handle = DropBundle(loads[l].handle)])
    /\ UNCHANGED <<xorVars, binFile, zipFile, assets, call, lastRun, run>>

\* a finished bundle is moved into place beside the executable
PlaceBundle(v, obfuscate) ==
    /\ IF obfuscate
       THEN /\ binFile' = Present(zip_dir(WalkDir(v), Deflated, TRUE))
            /\ binFile' # binFile /\ UNCHANGED zipFile
       ELSE /\ zipFile' = Present(zip_dir(WalkDir(v), Deflated, FALSE))
            /\ zipFile' # zipFile /\ UNCHANGED binFile
    /\ loads' = Disturbed
    /\ UNCHANGED <<xorVars, assets, call, lastRun, run>>

\* a bundle file is deleted
DeleteBundle(ext) ==
    /\ IF ext = "bin"
       THEN binFile.exists /\ binFile' = Absent /\ UNCHANGED zipFile
       ELSE zipFile.exists /\ zipFile' = Absent /\ UNCHANGED binFile
    /\ loads' = Disturbed
    /\ UNCHANGED <<xorVars, assets, call, lastRun, run>>

NextConc ==
    \/ \E l \in Tasks, p \in ConcPaths : Begin(l, p)
    \/ \E l \in Tasks : CheckBin(l)
    \/ \E l \in Tasks : CheckZip(l)
    \/ \E l \in Tasks : Open(l)
    \/ \E l \in Tasks : ByName(l)
    \/ \E l \in Tasks : Fallback(l)
    \/ \E l \in Tasks : Return(l)
    \/ \E v \in 1..MaxVersion, obfuscate \in BOOLEAN : PlaceBundle(v, obfuscate)
    \/ \E ext \in {"bin", "zip"} : DeleteBundle(ext)

SpecConc == Init /\ [][NextConc]_vars

(***************************************************************************)
(* zip_dir step by step: runs that fail part way, runs one after another   *)
(***************************************************************************)
\* the compression settings the runs are made with
RunMethods == { Stored, Deflated }

BundledPaths == { path_to_string(<<NameA>>), path_to_string(<<NameS, NameB>>) }

\* the bytes that reach the archive file: through Xor when obfuscate is set
Written(bytes, obfuscate) == IF obfuscate THEN XorWriteBytes(bytes) ELSE bytes

SetTarget(obfuscate, file) ==
    IF file_extension(obfuscate) = "bin"
    THEN binFile' = file /\ UNCHANGED zipFile
    ELSE zipFile' = file /\ UNCHANGED binFile

Ended(ok) == [ok |-> ok, v |-> run.v, compression |-> run.compression,
              obfuscate |-> run.obfuscate]

AnyEntry(name) == TRUE

\* name.as_os_str().len() != 0: only if not root
NotRoot(name) == Len(name) # 0

\* File::create(target_file) succeeds: the target is created or emptied
Create(v, compression, obfuscate) ==
    /\ run.pc = "idle"
    /\ SetTarget(obfuscate, Present(<<>>))
    /\ run' = [pc |-> "walk", v |-> v, compression |-> compression,
               obfuscate |-> obfuscate, i |-> 1, entries |-> <<>>,
               buffer |-> <<>>, clean |-> run.clean]
    /\ call' = [op |-> "none"]
    /\ UNCHANGED <<xorVars, assets, lastRun, loads>>

\* File::create(target_file) fails: expect panics, the target is as it was
CreateFails(v, compression, obfuscate) ==
    /\ run.pc = "idle"
    /\ lastRun' = [ok |-> FALSE, v |-> v, compression |-> compression,
                   obfuscate |-> obfuscate]
    /\ run' = [run EXCEPT !.clean = FALSE]
    /\ call' = [op |-> "none"]
    /\ UNCHANGED <<xorVars, binFile, zipFile, assets, loads>>

\* one turn of the for loop; the entry's bytes reach the file
WalkStep ==
    /\ run.pc = "walk" /\ run.i <= Len(WalkDir(run.v))
    /\ LET entry == WalkDir(run.v)[run.i]
           name == path_to_string(entry.rel)
           filled == run.buffer \o entry.data
           entries == IF entry.isFile
                      THEN Append(run.entries, FileEntry(name, run.compression, filled))
                      ELSE IF NotRoot(name)
                      THEN Append(run.entries, DirEntry(name))
                      ELSE run.entries
       IN  /\ run' = [run EXCEPT !.i = run.i + 1, !.entries = entries,
                         !.buffer = IF entry.isFile THEN BufferClear(filled)
                                    ELSE run.buffer]
           /\ SetTarget(run.obfuscate,
                        Present(Written(EntriesBytes(entries), run.obfuscate)))
    /\ call' = [op |-> "none"]
    /\ UNCHANGED <<xorVars, assets, lastRun, loads>>

\* an unwrap in the loop panics at the entry. Unwinding drops the ZipWriter,
\* which then writes its end record; a process that dies without unwinding
\* leaves the bytes written so far.
WalkFails(unwinds) ==
    /\ run.pc = "walk" /\ run.i <= Len(WalkDir(run.v))
    /\ IF unwinds
       THEN SetTarget(run.obfuscate,
                      Present(Written(ArchiveBytes(run.entries), run.obfuscate)))
       ELSE UNCHANGED <<binFile, zipFile>>
    /\ lastRun' = Ended(FALSE)
    /\ run' = [NotRunning EXCEPT !.clean = FALSE]
    /\ call' = [op |-> "none"]
    /\ UNCHANGED <<xorVars, assets, loads>>

\* zip.finish() after the loop
Finish ==
    /\ run.pc = "walk" /\ run.i > Len(WalkDir(run.v))
    /\ SetTarget(run.obfuscate,
                 Present(Written(ArchiveBytes(run.entries), run.obfuscate)))
    /\ lastRun' = Ended(TRUE)
    /\ run' = [NotRunning EXCEPT !.clean = run.clean]
    /\ call' = [op |-> "none"]
    /\ UNCHANGED <<xorVars, assets, loads>>

\* zip.finish() fails on a write: unwrap panics, no end record is written
FinishFails ==
    /\ run.pc = "walk" /\ run.i > Len(WalkDir(run.v))
    /\ lastRun' = Ended(FALSE)
    /\ run' = [NotRunning EXCEPT !.clean = FALSE]
    /\ call' = [op |-> "none"]
    /\ UNCHANGED <<xorVars, binFile, zipFile, assets, loads>>

InitBundle == Init /\ assets = AssetPool

NextBundle ==
    \/ \E v \in 1..MaxVersion, compression \in RunMethods,
          obfuscate \in BOOLEAN : Create(v, compression, obfuscate)
    \/ \E v \in 1..MaxVersion, compression \in RunMethods,
          obfuscate \in BOOLEAN : CreateFails(v, compression, obfuscate)
    \/ WalkStep
    \/ \E unwinds \in BOOLEAN : WalkFails(unwinds)
    \/ Finish
    \/ FinishFails
    \/ \E p \in BundledPaths : LoadPath(p)

SpecBundle == InitBundle /\ [][NextBundle]_vars

InitXor == seed \in Byte /\ InitXorState /\ InitFsState /\ assets = {}

NextXor ==
    \/ DoXorWrite
    \/ DoXorWriteErr
    \/ DoXorRead
    \/ DoXorReadErr
    \/ DoXorSeek

SpecXor == InitXor /\ [][NextXor]_vars

(***************************************************************************)
(* Properties of the Xor transform                                         *)
(***************************************************************************)
\* the transform applied to one byte directly
Transform(b) == BitXor(b, XOR_FACTOR, 8)

\* C8: bytes written through Xor and read back through Xor come back as
\* written; the transform applied twice is the identity, and read and write
\* apply the same XOR with 0x55.
C8_RoundTrip ==
    /\ (xret.op = "read" /\ xret.ok) =>
            \A j \in 1..xret.n :
                plain[xret.at + j] # -1 => xret.buf[j] = plain[xret.at + j]
    /\ XorReadByte(XorWriteByte(seed)) = seed
    /\ XorWriteByte(XorReadByte(seed)) = seed
    /\ XorReadByte(seed) = Transform(seed)
    /\ XorWriteByte(seed) = Transform(seed)

C8_Witness ==
    /\ xret.op = "read" /\ xret.ok /\ xret.n = 2
    /\ seed = 171
    /\ plain[xret.at + 1] = 171 /\ plain[xret.at + 2] = 172
    /\ inner[xret.at + 1] = 254 /\ inner[xret.at + 2] = 249

\* C9: seek reaches the underlying stream unmodified and its result is
\* returned; whatever the interleaving of seek, read and write, the byte
\* stored at each offset is the plain byte written there XOR 0x55, and each
\* byte read is the stored byte at its offset XOR 0x55.
C9_PositionIndependent ==
    /\ \A i \in DOMAIN inner : plain[i] # -1 => inner[i] = Transform(plain[i])
    /\ (xret.op = "read" /\ xret.ok) =>
            \A j \in 1..xret.n : xret.buf[j] = Transform(inner[xret.at + j])
    /\ xret.op = "seek" =>
            /\ xret.ok = InnerSeek(xret.at).ok
            /\ xret.n = InnerSeek(xret.at).n
            /\ xret.ok => pos = xret.at

\* a write that landed in the middle of the stream after a seek back
C9_Witness ==
    /\ xret.op = "write" /\ xret.ok /\ xret.at = 1 /\ xret.n = 1
    /\ Len(inner) = 2
    /\ plain[1] = seed /\ plain[2] = seed
    /\ seed = ByteMax

(***************************************************************************)
(* Properties of the resolving asset source and the bundler                *)
(***************************************************************************)
\* the located file as the archive reader sees it: .bin de-obfuscated
Seen(file, obfuscated) ==
    IF obfuscated THEN [i \in DOMAIN file.bytes |-> Transform(file.bytes[i])]
    ELSE file.bytes

\* the file the locator must pick: .bin if it exists, else .zip
Picked == IF binFile.exists THEN "bin" ELSE IF zipFile.exists THEN "zip" ELSE "none"
PickedArchive ==
    IF Picked = "bin" THEN ZipArchiveNew(Seen(binFile, TRUE))
    ELSE IF Picked = "zip" THEN ZipArchiveNew(Seen(zipFile, FALSE))
    ELSE NoArchive

EntriesNamed(archive, name) ==
    {i \in DOMAIN archive.entries : archive.entries[i].name = name}

\* the entry of the picked archive named name decodes and matches its checksum
Readable(archive, name) ==
    /\ archive.ok
    /\ \E i \in EntriesNamed(archive, name) :
          LET e == archive.entries[i]
          IN  /\ e.method \in CompressionMethods
              /\ Decompress(e.method, e.comp).kind = "ok"
              /\ Crc(Decompress(e.method, e.comp).bytes) = e.crc

Decoded(archive, name) ==
    LET e == archive.entries[CHOOSE i \in EntriesNamed(archive, name) : TRUE]
    IN  Decompress(e.method, e.comp).bytes

IsLoad == call.op = "load_path"

NonUnicodeArg == \E i \in DOMAIN call.arg : call.arg[i] >= 128

\* C1 as claimed, for every path: a load against a valid bundle that has no
\* entry under the path calls the fallback source's load once, with that
\* path, and returns its result.
C1_FallbackOnMiss ==
    (IsLoad /\ PickedArchive.ok /\ EntriesNamed(PickedArchive, call.arg) = {}) =>
        /\ call.fb = <<[op |-> "load_path", arg |-> call.arg]>>
        /\ call.result = FallbackLoad(assets, call.arg)

\* C1: a load of a unicode path against a valid bundle that has no entry under
\* the path calls the fallback source's load once, with that path, and returns
\* its result; a path that is not unicode panics there instead.
C1_FallbackOnUnicodeMiss ==
    (IsLoad /\ PickedArchive.ok /\ EntriesNamed(PickedArchive, call.arg) = {}) =>
        IF NonUnicodeArg
        THEN /\ call.result.kind = "panic" /\ call.fb = <<>>
        ELSE /\ call.fb = <<[op |-> "load_path", arg |-> call.arg]>>
             /\ call.result = FallbackLoad(assets, call.arg)

\* "s/b" asked of an obfuscated bundle that only holds "a"; the fallback has it
C1_Witness ==
    /\ IsLoad /\ call.arg = <<115, 47, 98>>
    /\ Picked = "bin" /\ PickedArchive.ok
    /\ EntriesNamed(PickedArchive, call.arg) = {}
    /\ call.result = Ok(<<8, 8>>)

\* C2: a load of a path that is a readable entry of the valid bundle returns
\* the entry's full decompressed bytes and never calls the fallback source.
C2_BundleFirst ==
    (IsLoad /\ Readable(PickedArchive, call.arg)) =>
        /\ call.result = Ok(Decoded(PickedArchive, call.arg))
        /\ call.fb = <<>>

\* "a" is in the bundle (deflated, 3 bytes) and, with other bytes, in the fallback
C2_Witness ==
    /\ IsLoad /\ call.arg = <<97>>
    /\ Readable(PickedArchive, call.arg)
    /\ PickedArchive.entries[1].method = Deflated
    /\ FallbackLoad(assets, call.arg) = Ok(<<9>>)
    /\ call.result = Ok(<<1, 1, 0>>)

\* C3: with both files present the locator picks .bin as obfuscated and a load
\* is served from the de-obfuscated .bin (or the fallback), never from .zip;
\* .zip is picked, as plain, only when .bin does not exist.
C3_Precedence ==
    /\ binFile.exists =>
          /\ Locate(binFile, zipFile).ext = "bin"
          /\ Locate(binFile, zipFile).obfuscate
    /\ Locate(binFile, zipFile).ext = "zip" =>
          /\ ~binFile.exists /\ zipFile.exists
          /\ ~Locate(binFile, zipFile).obfuscate
    /\ (IsLoad /\ binFile.exists /\ zipFile.exists) =>
          /\ call.located = "bin"
          /\ call.result =
                IF ZipArchiveNew(Seen(binFile, TRUE)).ok /\ NonUnicodeArg
                THEN Panic("non-unicode filename")
                ELSE IF Readable(ZipArchiveNew(Seen(binFile, TRUE)), call.arg)
                THEN Ok(Decoded(ZipArchiveNew(Seen(binFile, TRUE)), call.arg))
                ELSE FallbackLoad(assets, call.arg)

\* both bundles hold "a" with different bytes; the load returns the .bin's
C3_Witness ==
    /\ IsLoad /\ call.arg = <<97>>
    /\ binFile.exists /\ zipFile.exists
    /\ Readable(ZipArchiveNew(Seen(zipFile, FALSE)), call.arg)
    /\ Decoded(ZipArchiveNew(Seen(zipFile, FALSE)), call.arg) = <<1, 1, 0>>
    /\ call.result = Ok(<<2, 2, 0>>)

\* C4: with neither file present every load returns the fallback source's
\* result for the path, and nothing else is reported.
C4_FallbackOnAbsence ==
    (IsLoad /\ ~binFile.exists /\ ~zipFile.exists) =>
        /\ call.fb = <<[op |-> "load_path", arg |-> call.arg]>>
        /\ call.result = FallbackLoad(assets, call.arg)

C4_Witness ==
    /\ IsLoad /\ ~binFile.exists /\ ~zipFile.exists
    /\ lastRun.ok
    /\ call.arg = <<109>> /\ call.result = Ok(<<7>>)

\* C5: a load against a bundle file that exists but does not parse as an
\* archive returns an error and does not return the fallback source's result.
C5_MalformedIsError ==
    (IsLoad /\ Picked # "none" /\ ~PickedArchive.ok) =>
        /\ call.result.kind = "err"
        /\ call.fb = <<>>

\* C6: read_directory, is_directory, watch_path_for_changes and
\* watch_for_changes make the same call on the fallback source with the same
\* argument, return its result, and touch no bundle file.
C6_Forwarded ==
    /\ call.op = "read_directory" =>
          call.result = FallbackReadDirectory(assets, call.arg)
    /\ call.op = "is_directory" =>
          call.result = FallbackIsDirectory(assets, call.arg)
    /\ call.op = "watch_path_for_changes" =>
          call.result = FallbackWatchPath(assets, call.arg)
    /\ call.op = "watch_for_changes" =>
          call.result = FallbackWatchAll(assets)
    /\ call.op \in {"read_directory", "is_directory", "watch_path_for_changes",
                    "watch_for_changes"} =>
          /\ call.fb = <<[op |-> call.op, arg |-> call.arg]>>
          /\ call.located = "none"

\* a watch on a path the fallback does not have, beside a malformed .bin and
\* a valid .zip
C6_Witness ==
    /\ call.op = "watch_path_for_changes" /\ call.result = "err"
    /\ binFile.exists /\ ~ZipArchiveNew(Seen(binFile, TRUE)).ok
    /\ zipFile.exists /\ ZipArchiveNew(Seen(zipFile, FALSE)).ok

\* the regular files of the tree the last run bundled
RunFiles == {i \in DOMAIN WalkDir(lastRun.v) : WalkDir(lastRun.v)[i].isFile}

RECURSIVE Joined(_)
Joined(rel) ==
    IF Len(rel) = 1 THEN rel[1] ELSE rel[1] \o <<47>> \o Joined(Tail(rel))

\* the last run succeeded and its output is the only bundle in the directory
OnlyRunOutput ==
    /\ lastRun.ok
    /\ IF lastRun.obfuscate
       THEN /\ ~zipFile.exists
            /\ binFile = Present(zip_dir(WalkDir(lastRun.v), lastRun.compression, TRUE))
       ELSE /\ ~binFile.exists
            /\ zipFile = Present(zip_dir(WalkDir(lastRun.v), lastRun.compression, FALSE))

\* C7: after a successful run whose output is the only bundle beside the
\* executable, a load of the relative path of any regular file of the source
\* tree returns exactly that file's bytes, for each compression method and
\* for plain and obfuscated bundles.
C7_RoundTrip ==
    (IsLoad /\ OnlyRunOutput) =>
        \A i \in RunFiles :
            call.arg = Joined(WalkDir(lastRun.v)[i].rel) =>
                /\ call.result = Ok(WalkDir(lastRun.v)[i].data)
                /\ call.fb = <<>>

\* "s/b" read back from an obfuscated bzip2 bundle of the full tree
C7_Witness ==
    /\ IsLoad /\ OnlyRunOutput
    /\ lastRun.obfuscate /\ lastRun.compression = Bzip2 /\ lastRun.v = 1
    /\ call.arg = <<115, 47, 98>>
    /\ call.result = Ok(<<101>>)

\* the same from a plain deflated bundle
C7_WitnessPlain ==
    /\ IsLoad /\ OnlyRunOutput
    /\ ~lastRun.obfuscate /\ lastRun.compression = Deflated /\ lastRun.v = 1
    /\ call.arg = <<115, 47, 98>>
    /\ call.result = Ok(<<101>>)

\* C10: nothing of a load survives its return, and a load during which the
\* directory did not change returns what a load on its own returns for the
\* directory as it is: the picked bundle's entry if it has one, else the
\* fallback's result; this holds whatever other loads overlap it and
\* whatever the bundle files were before the call.
C10_PerCallResolution ==
    \A l \in Tasks :
        /\ loads[l].pc = "idle" => loads[l] = Idle
        /\ (loads[l].pc = "done" /\ ~loads[l].dirty) =>
              /\ loads[l].result = load_path(binFile, zipFile, assets, loads[l].path).result
              /\ loads[l].result =
                    IF PickedArchive.ok /\ EntriesNamed(PickedArchive, loads[l].path) # {}
                    THEN Ok(Decoded(PickedArchive, loads[l].path))
                    ELSE FallbackLoad(assets, loads[l].path)

\* t1 finished a load of "a" before the bundle was replaced, t2 made the same
\* load after it and got the new bundle's bytes
C10_Witness ==
    /\ loads["t1"].pc = "done" /\ loads["t1"].dirty
    /\ loads["t1"].path = <<97>> /\ loads["t1"].result = Ok(<<1, 1, 0>>)
    /\ loads["t2"].pc = "done" /\ ~loads["t2"].dirty
    /\ loads["t2"].path = <<97>> /\ loads["t2"].result = Ok(<<2, 2, 0>>)

\* C16: a read through Xor returns the delegate's count n, the first n bytes
\* of buf are the delegate's bytes XOR 0x55, the bytes of buf from n on are
\* as the delegate left them, and after a delegate error buf is untouched.
C16_ReadRegion ==
    xret.op = "read" =>
        IF xret.ok
        THEN /\ \A i \in DOMAIN xret.buf :
                   i <= xret.n => xret.buf[i] = Transform(xret.dbuf[i])
             /\ \A i \in DOMAIN xret.buf :
                   i > xret.n => xret.buf[i] = xret.dbuf[i]
        ELSE xret.buf = xret.dbuf

\* C11: a load of a path whose entry is in the opened bundle but cannot be
\* opened or read (unsupported or corrupt data) returns an error and the
\* fallback source is not asked.
C11_EntryFailureIsError ==
    (IsLoad /\ (\A i \in DOMAIN call.arg : call.arg[i] < 128)
            /\ PickedArchive.ok
            /\ EntriesNamed(PickedArchive, call.arg) # {}
            /\ ~Readable(PickedArchive, call.arg)) =>
        /\ call.result.kind = "err"
        /\ call.fb = <<>>

\* the path asked for is not valid unicode
\* C12 as claimed: a load of a non-unicode path panics whatever the directory
\* holds and is never passed to the fallback source.
C12_AlwaysPanics ==
    (IsLoad /\ NonUnicodeArg) =>
        /\ call.result.kind = "panic"
        /\ call.fb = <<>>

\* C12 as amended: a load of a non-unicode path panics, without a call of the
\* fallback source, whenever a bundle file is found and opens as an archive;
\* when no bundle opens the path is passed to the fallback source and its
\* result returned.
C12_PanicsWithBundle ==
    (IsLoad /\ NonUnicodeArg) =>
        IF PickedArchive.ok
        THEN /\ call.result.kind = "panic"
             /\ call.fb = <<>>
        ELSE /\ call.fb = <<[op |-> "load_path", arg |-> call.arg]>>
             /\ call.result = FallbackLoad(assets, call.arg)

C12_Witness ==
    /\ IsLoad /\ call.arg = <<255>>
    /\ Picked = "bin" /\ PickedArchive.ok /\ Len(PickedArchive.entries) = 4
    /\ call.result.kind = "panic"

\* the corrupt entry "m" of a foreign zip: the read fails and is reported
C11_ReadErrorSeen ==
    /\ IsLoad /\ call.arg = <<109>> /\ call.located = "zip"
    /\ EntriesNamed(PickedArchive, call.arg) # {}
    /\ call.result.kind = "err" /\ call.fb = <<>>


(***************************************************************************)
(* Runs of the bundler that fail, and runs one after another               *)
(***************************************************************************)
LastTarget == IF file_extension(lastRun.obfuscate) = "bin" THEN binFile ELSE zipFile

LastArchive ==
    IF LastTarget.exists
    THEN ZipArchiveNew(Seen(LastTarget, lastRun.obfuscate))
    ELSE NoArchive

Aborted == run.pc = "idle" /\ lastRun.v # 0 /\ ~lastRun.ok

\* C13: after a run of the bundler that panicked, no load_path call is
\* answered with an entry read out of that run's target file: the file does
\* not open as an archive that serves entries.
C13_NoPartialArchive ==
    (IsLoad /\ Aborted) =>
        ~ /\ call.located = file_extension(lastRun.obfuscate)
          /\ call.fb = <<>>
          /\ call.result.kind = "ok"


RunDirs ==
    {i \in DOMAIN WalkDir(lastRun.v) :
        ~WalkDir(lastRun.v)[i].isFile /\ Len(WalkDir(lastRun.v)[i].rel) # 0}

RunTarget == IF file_extension(run.obfuscate) = "bin" THEN binFile ELSE zipFile

\* C14: after a successful zip_dir the archive holds exactly one file entry
\* per regular file, named by its relative path, written with the requested
\* compression and holding the file's bytes, and one directory marker per
\* directory other than the root; the root has no entry; and as long as the
\* run has not finished the target is not a finalized archive.
C14_EntrySet ==
    /\ (run.pc = "idle" /\ lastRun.ok) =>
          LET walk == WalkDir(lastRun.v)
              archive == LastArchive
              named(name) == EntriesNamed(archive, name)
          IN  /\ archive.ok
              /\ Len(archive.entries) = Cardinality(RunFiles) + Cardinality(RunDirs)
              /\ \A i \in RunFiles :
                    /\ Cardinality(named(Joined(walk[i].rel))) = 1
                    /\ \A j \in named(Joined(walk[i].rel)) :
                          /\ archive.entries[j].method = lastRun.compression
                          /\ archive.entries[j].size = Len(walk[i].data)
                          /\ Decompress(archive.entries[j].method,
                                        archive.entries[j].comp) = Ok(walk[i].data)
              /\ \A i \in RunDirs :
                    /\ Cardinality(named(Joined(walk[i].rel) \o <<47>>)) = 1
                    /\ \A j \in named(Joined(walk[i].rel) \o <<47>>) :
                          archive.entries[j].size = 0
              /\ named(<<>>) = {} /\ named(<<47>>) = {}
    /\ run.pc = "walk" =>
          ~ZipArchiveNew(Seen(RunTarget, run.obfuscate)).ok

C14_Witness ==
    /\ run.pc = "idle" /\ lastRun.ok /\ lastRun.v = 1
    /\ lastRun.obfuscate /\ lastRun.compression = Deflated
    /\ LastArchive.ok /\ Len(LastArchive.entries) = 4
    /\ Cardinality(RunDirs) = 2


\* C15: after successful runs only, with any obfuscate setting per run, a load
\* of a bundled path returns the bytes the most recent run wrote for it, and
\* the directory holds at most one of the .bin and .zip variants.
C15_LatestWins ==
    (IsLoad /\ run.pc = "idle" /\ run.clean /\ lastRun.ok) =>
        /\ \A i \in RunFiles :
              call.arg = Joined(WalkDir(lastRun.v)[i].rel) =>
                  call.result = Ok(WalkDir(lastRun.v)[i].data)
        /\ ~(binFile.exists /\ zipFile.exists)

====
